---- MODULE Spec2Model ----
(***************************************************************************)
(* A model of ffauto.py: the compilation of a request into the ffmpeg      *)
(* argument vectors (main, lines 249-438) and the supervision of the one   *)
(* or two encoder passes (main, lines 440-506, and start_ffmpeg).          *)
(*                                                                         *)
(* Strings the code takes apart (time expressions, output lines) are       *)
(* sequences of one-character strings; "" is <<>>.  Times are integers in  *)
(* units of 10 microseconds (TLC's integers have 32 bits), so that         *)
(* round(x, 4) is a real operation.                                        *)
(***************************************************************************)
EXTENDS Integers, Sequences, FiniteSets, TLC

\* Lines one encoder process writes before it terminates.
MaxLines == 3
\* Largest exit status an encoder process terminates with.
MaxExitCode == 2
\* Largest signal number an encoder process is killed by.
MaxSignal == 1

Passes == {1, 2}

VARIABLES
    pc,             \* position of main
    args,           \* the parsed command line (argparse namespace)
    ffprobe_json,   \* the document ffprobe prints for the input file
    raised,         \* the exception that ended main, "" when none
    video_info,     \* main: the stream get_video_info returned
    start_secs,     \* main
    duration_secs,  \* main
    FAST_SEEK,      \* main
    fadein_start,   \* main
    fadeout_start,  \* main
    loop_amount,    \* main
    new_size_parsed, \* main: the even target size, 0 without -vw/-vh
    filters,        \* main: the filter_* fragments, each a list of filters
    opt_vfilter,    \* main: the filters of opt_vfilter_joined
    yt_index,       \* main: <<yt_index1, yt_index2>>, <<>> without -yt
    opts_seek,      \* main
    opt_input,      \* main
    palette_exists, \* the file mkstemp created is on disk
    ffmpeg_args,    \* the argument vector of the pass being run
    proc,           \* per pass: "not_started", "running" or "exited"
    rc,             \* per pass: Popen.returncode, read once the process ended
    pipe,           \* per pass: raw lines written and not yet read
    written,        \* per pass: number of lines the process has written
    cur,            \* the pass start_ffmpeg is supervising (0: none)
    line,           \* start_ffmpeg: the stripped line last read
    oldline,        \* start_ffmpeg: the line of the previous iteration
    readlog,        \* start_ffmpeg: the stripped lines read from the stream
    emitted,        \* start_ffmpeg: the lines printed
    unread,         \* lines still in the pipe when start_ffmpeg returned
    success,        \* main: first element of start_ffmpeg's result
    returncode,     \* main: second element of start_ffmpeg's result
    exit_status     \* exit status of the invocation, read once pc = "exited"

planVars == <<ffprobe_json, raised, video_info, start_secs, duration_secs,
              FAST_SEEK, fadein_start, fadeout_start, loop_amount,
              new_size_parsed, filters, opt_vfilter, yt_index, opts_seek,
              opt_input>>
supVars == <<palette_exists, ffmpeg_args, proc, rc, pipe, written, cur, line,
             oldline, readlog, emitted, unread, success, returncode>>
procVars == <<proc, rc, pipe, written>>
loopVars == <<cur, line, oldline, readlog, emitted, unread>>

vars == <<pc, args, exit_status, planVars, supVars>>

----------------------------------------------------------------------------
\* Output lines

Whitespace == {" "}

\* The raw lines an encoder writes (without the newline).
RawLines == {<<>>, <<"a">>, <<" ", "a">>, <<"b">>}

RECURSIVE LStrip(_)
LStrip(s) ==
    IF s # <<>> /\ Head(s) \in Whitespace THEN LStrip(Tail(s)) ELSE s

RECURSIVE RStrip(_)
RStrip(s) ==
    IF s # <<>> /\ s[Len(s)] \in Whitespace
    THEN RStrip(SubSeq(s, 1, Len(s) - 1))
    ELSE s

\* str.strip()
Strip(s) == RStrip(LStrip(s))

\* The process exit codes Popen reports: -N for a process killed by signal N.
ReturnCodes == {-s : s \in 1..MaxSignal} \cup (0..MaxExitCode)

\* sys.exit(code): the status the parent sees is the code's low byte.
SysExit(code) == code % 256

----------------------------------------------------------------------------
\* Numbers and strings

Digits == <<"0", "1", "2", "3", "4", "5", "6", "7", "8", "9">>
IsDigit(c) == \E i \in 1..Len(Digits) : Digits[i] = c
DigitVal(c) == (CHOOSE i \in 1..Len(Digits) : Digits[i] = c) - 1

\* One second, in the unit of the model's times (10 microseconds).
Second == 100 * 1000

RECURSIVE Pow10(_)
Pow10(n) == IF n = 0 THEN 1 ELSE 10 * Pow10(n - 1)

\* The number a string of digits denotes.
RECURSIVE DigitsVal(_)
DigitsVal(s) ==
    IF s = <<>> THEN 0
    ELSE 10 * DigitsVal(SubSeq(s, 1, Len(s) - 1)) + DigitVal(s[Len(s)])

AllDigits(s) == \A i \in 1..Len(s) : IsDigit(s[i])

\* The number of digits s starts with.
RECURSIVE LeadingDigits(_)
LeadingDigits(s) ==
    IF s # <<>> /\ IsDigit(Head(s)) THEN 1 + LeadingDigits(Tail(s)) ELSE 0

\* The index of the first c in s, 0 when there is none.
RECURSIVE IndexOf(_, _)
IndexOf(s, c) ==
    IF s = <<>> THEN 0
    ELSE IF Head(s) = c THEN 1
    ELSE LET i == IndexOf(Tail(s), c) IN IF i = 0 THEN 0 ELSE i + 1

Contains(s, c) == IndexOf(s, c) # 0

\* The fraction digits f in the model's unit: f right-padded to five digits.
\* A sixth and later digit is below the unit and dropped.
Fraction(f) ==
    IF Len(f) <= 5 THEN DigitsVal(f) * Pow10(5 - Len(f))
    ELSE DigitsVal(SubSeq(f, 1, 5))

\* A failed conversion (ValueError).
ValueError == [ok |-> FALSE, v |-> 0]
Value(x) == [ok |-> TRUE, v |-> x]

\* float(s) for a string of digits, ".", and a leading sign, as a time:
\* [sign] digits [. [digits]] or [sign] . digits.  Other characters of the
\* model's strings (":", "x", "/") make it fail.
UnsignedFloat(s) ==
    LET dot == IndexOf(s, ".")
        ip == IF dot = 0 THEN s ELSE SubSeq(s, 1, dot - 1)
        fp == IF dot = 0 THEN <<>> ELSE SubSeq(s, dot + 1, Len(s))
    IN  IF AllDigits(ip) /\ AllDigits(fp) /\ Len(ip) + Len(fp) > 0
        THEN Value(DigitsVal(ip) * Second + Fraction(fp))
        ELSE ValueError

Float(s) ==
    IF s # <<>> /\ Head(s) = "-"
    THEN LET u == UnsignedFloat(Tail(s))
         IN  IF u.ok THEN Value(0 - u.v) ELSE ValueError
    ELSE IF s # <<>> /\ Head(s) = "+" THEN UnsignedFloat(Tail(s))
    ELSE UnsignedFloat(s)

\* int(s) for a string: an optional sign and digits only.
PyInt(s) ==
    LET neg == s # <<>> /\ Head(s) = "-"
        u   == IF s # <<>> /\ Head(s) \in {"-", "+"} THEN Tail(s) ELSE s
    IN  IF u # <<>> /\ AllDigits(u)
        THEN Value(IF neg THEN 0 - DigitsVal(u) ELSE DigitsVal(u))
        ELSE ValueError

\* round(x, 4) of a time: the nearest multiple of 10 units, a tie going to
\* the even one.
Round4(x) ==
    LET q == x \div 10
        r == x % 10
    IN  IF r < 5 THEN q * 10
        ELSE IF r > 5 THEN (q + 1) * 10
        ELSE IF q % 2 = 0 THEN q * 10 ELSE (q + 1) * 10

----------------------------------------------------------------------------
\* parse_ffmpeg_timestamp

\* line 59: the directives and literals of each clock format
timestamp_formats ==
    << <<"H", ":", "M", ":", "S", ".", "f">>,
       <<"H", ":", "M", ":", "S">>,
       <<"M", ":", "S", ".", "f">>,
       <<"M", ":", "S">> >>

\* The most digits a directive takes and the largest value datetime accepts.
DirectiveWidth(d) == IF d = "f" THEN 6 ELSE 2
DirectiveMax(d) ==
    IF d = "H" THEN 23 ELSE IF d = "f" THEN 999999 ELSE 59

\* datetime.strptime(s, fmt): the fields parsed, or ValueError.  A directive
\* takes the digits up to the next literal; the whole string must be used.
RECURSIVE Strptime(_, _, _)
Strptime(s, fmt, got) ==
    IF fmt = <<>>
    THEN IF s = <<>> THEN Value(got) ELSE ValueError
    ELSE LET d == Head(fmt) IN
         IF d \in {":", "."}
         THEN IF s # <<>> /\ Head(s) = d
              THEN Strptime(Tail(s), Tail(fmt), got)
              ELSE ValueError
         ELSE LET k == LeadingDigits(s)
                  t == SubSeq(s, 1, k)
              IN  IF k >= 1 /\ k <= DirectiveWidth(d)
                     /\ DigitsVal(t) <= DirectiveMax(d)
                  THEN Strptime(SubSeq(s, k + 1, Len(s)), Tail(fmt),
                                [got EXCEPT ![d] =
                                    IF d = "f" THEN Fraction(t)
                                    ELSE DigitsVal(t)])
                  ELSE ValueError

\* line 70: (parsed - zero).total_seconds(), rounded
TotalSeconds(p) ==
    (p["H"] * 3600 + p["M"] * 60 + p["S"]) * Second + p["f"]

\* lines 65-76: the loop over the formats; a later format that parses
\* overwrites the value of an earlier one, and -1 stays when none parses
RECURSIVE TryFormats(_, _, _)
TryFormats(timestamp, i, ret_val) ==
    IF i > Len(timestamp_formats) THEN ret_val
    ELSE LET parsed == Strptime(timestamp, timestamp_formats[i],
                                [H |-> 0, M |-> 0, S |-> 0, f |-> 0])
         IN  TryFormats(timestamp, i + 1,
                        IF parsed.ok THEN Round4(TotalSeconds(parsed.v))
                        ELSE ret_val)

\* lines 58-78
parse_ffmpeg_timestamp(timestamp) ==
    IF Float(timestamp).ok THEN Float(timestamp).v
    ELSE TryFormats(timestamp, 1, 0 - Second)

----------------------------------------------------------------------------
\* Results of a call that may raise

Raise(e) == [exc |-> e, v |-> <<>>]
Return(x) == [exc |-> "", v |-> x]

\* The truth value of an optional string option: None and "" are both false
\* wherever main tests one, so an option not given is <<>>.
Given(opt) == opt # <<>>

----------------------------------------------------------------------------
\* get_video_info

\* lines 101-103 (and 109-111): "N/D" becomes the quotient N/D, kept as the
\* pair of its terms; a value without "/" stays the string it was
ConvertFrameRate(stream) ==
    IF "r_frame_rate" \notin DOMAIN stream THEN Raise("KeyError")
    ELSE LET r == stream["r_frame_rate"]
             i == IndexOf(r, "/")
             dividend == SubSeq(r, 1, i - 1)
             divisor == SubSeq(r, i + 1, Len(r))
         IN  IF i = 0
             THEN Return([stream EXCEPT !["r_frame_rate"] =
                             [n |-> 0, d |-> 1, converted |-> FALSE]])
             ELSE IF Contains(divisor, "/") THEN Raise("ValueError")
             ELSE IF ~PyInt(dividend).ok \/ ~PyInt(divisor).ok
                  THEN Raise("ValueError")
             ELSE IF PyInt(divisor).v = 0 THEN Raise("ZeroDivisionError")
             ELSE Return([stream EXCEPT !["r_frame_rate"] =
                             [n |-> PyInt(dividend).v, d |-> PyInt(divisor).v,
                              converted |-> TRUE]])

\* line 126
FallbackDuration == 1000 * Second

\* lines 118-122: the duration of the first stream that carries one
RECURSIVE FirstDuration(_, _)
FirstDuration(streams, i) ==
    IF i > Len(streams) THEN Return(<<>>)
    ELSE IF "duration" \in DOMAIN streams[i]
         THEN IF Float(streams[i]["duration"]).ok
              THEN Return(<<Float(streams[i]["duration"]).v>>)
              ELSE Raise("ValueError")
         ELSE FirstDuration(streams, i + 1)

\* A record r with field k set to x, whether or not r has the field.
SetField(r, k, x) ==
    [f \in DOMAIN r \cup {k} |-> IF f = k THEN x ELSE r[f]]

\* lines 114-128
WithDuration(stream, streams) ==
    IF "duration" \in DOMAIN stream
    THEN IF Float(stream["duration"]).ok
         THEN Return([stream EXCEPT !["duration"] =
                         Float(stream["duration"]).v])
         ELSE Raise("ValueError")
    ELSE LET found == FirstDuration(streams, 1)
         IN  IF found.exc # "" THEN found
             ELSE IF found.v # <<>>
                  THEN Return(SetField(stream, "duration", found.v[1]))
                  ELSE Return(SetField(stream, "duration", FallbackDuration))

\* lines 91-128, on the document ffprobe printed
get_video_info(json) ==
    IF "streams" \notin DOMAIN json THEN Raise("RuntimeError")
    ELSE IF json.streams = <<>> THEN Raise("IndexError")
    ELSE LET first == ConvertFrameRate(json.streams[1])
         IN  IF first.exc = "" THEN WithDuration(first.v, json.streams)
             ELSE IF Len(json.streams) < 2 THEN first
             ELSE LET second == ConvertFrameRate(json.streams[2])
                  IN  IF second.exc = ""
                      THEN WithDuration(second.v, json.streams)
                      ELSE second

----------------------------------------------------------------------------
\* main, lines 249-293

\* An uncaught exception ends the invocation with a traceback and status 1.
Abort(e) ==
    /\ pc' = "exited"
    /\ raised' = e
    /\ exit_status' = 1

\* line 251
GetVideoInfo ==
    /\ pc = "probe"
    /\ LET r == get_video_info(ffprobe_json)
       IN  IF r.exc # ""
           THEN Abort(r.exc) /\ UNCHANGED video_info
           ELSE /\ video_info' = r.v
                /\ pc' = "times"
                /\ UNCHANGED <<raised, exit_status>>
    /\ UNCHANGED <<args, ffprobe_json, start_secs, duration_secs, FAST_SEEK,
                   fadein_start, fadeout_start, loop_amount, new_size_parsed,
                   filters, opt_vfilter, yt_index, opts_seek, opt_input,
                   supVars>>

\* lines 254-259
DurationSecs(a, info, start) ==
    IF Given(a.to) THEN parse_ffmpeg_timestamp(a.to) - start
    ELSE IF Given(a.t) THEN parse_ffmpeg_timestamp(a.t)
    ELSE info["duration"] - start

\* lines 253-259: no result of parse_ffmpeg_timestamp is checked
ParseTimes ==
    /\ pc = "times"
    /\ start_secs' = parse_ffmpeg_timestamp(args.ss)
    /\ duration_secs' =
           DurationSecs(args, video_info, parse_ffmpeg_timestamp(args.ss))
    /\ pc' = "seek"
    /\ UNCHANGED <<args, exit_status, ffprobe_json, raised, video_info,
                   FAST_SEEK, fadein_start, fadeout_start, loop_amount,
                   new_size_parsed, filters, opt_vfilter, yt_index, opts_seek,
                   opt_input, supVars>>

\* lines 280-282
FastSeek(a) == a.gif \/ a.fast_seek

\* lines 284-286: -f sets both fades
WithFade(a) ==
    IF Given(a.fade) THEN [a EXCEPT !.fadein = a.fade, !.fadeout = a.fade]
    ELSE a

\* float(args.fadeout or 0)
FadeoutLength(a) == IF Given(a.fadeout) THEN Float(a.fadeout) ELSE Value(0)

\* A fade-out start that is relative to zero under either seek placement.
FadeoutStartFromZero(fast, start, duration, fadeout) ==
    Round4(duration - fadeout)

\* lines 288-293
FadeinStart(fast, start) == IF fast THEN 0 ELSE Round4(start)
FadeoutStart(fast, start, duration, fadeout) ==
    IF fast THEN Round4(duration - fadeout)
    ELSE Round4(start + duration - fadeout)

\* lines 280-293
SeekAndFades ==
    /\ pc = "seek"
    /\ FAST_SEEK' = FastSeek(args)
    /\ args' = WithFade(args)
    /\ LET fo == FadeoutLength(WithFade(args))
       IN  IF ~fo.ok
           THEN Abort("ValueError") /\ UNCHANGED <<fadein_start, fadeout_start>>
           ELSE /\ fadein_start' = FadeinStart(FastSeek(args), start_secs)
                /\ fadeout_start' = FadeoutStart(FastSeek(args), start_secs,
                                                 duration_secs, fo.v)
                /\ pc' = "crop"
                /\ UNCHANGED <<raised, exit_status>>
    /\ UNCHANGED <<ffprobe_json, video_info, start_secs, duration_secs,
                   loop_amount, new_size_parsed, filters, opt_vfilter,
                   yt_index, opts_seek, opt_input, supVars>>

----------------------------------------------------------------------------
\* main, lines 295-438

\* The number of times c occurs in s.
RECURSIVE Count(_, _)
Count(s, c) ==
    IF s = <<>> THEN 0
    ELSE (IF Head(s) = c THEN 1 ELSE 0) + Count(Tail(s), c)

\* lines 302-304
LoopAmount(a) ==
    IF ~Given(a.loop) THEN Value(0)
    ELSE IF ~PyInt(a.loop).ok THEN ValueError
    ELSE LET n == PyInt(a.loop).v
         IN  Value((IF n < 0 THEN 0 - n ELSE n) - 1)

\* lines 295-304: split(":") gives one part more than there are colons
CropAndLoop ==
    /\ pc = "crop"
    /\ IF Given(args.crop) /\ Count(args.crop, ":") + 1 # 4
       THEN Abort("RuntimeError") /\ UNCHANGED loop_amount
       ELSE IF ~LoopAmount(args).ok
       THEN Abort("ValueError") /\ UNCHANGED loop_amount
       ELSE /\ loop_amount' = LoopAmount(args).v
            /\ pc' = "scale"
            /\ UNCHANGED <<raised, exit_status>>
    /\ UNCHANGED <<args, ffprobe_json, video_info, start_secs, duration_secs,
                   FAST_SEEK, fadein_start, fadeout_start, new_size_parsed,
                   filters, opt_vfilter, yt_index, opts_seek, opt_input,
                   supVars>>

\* A rounding to the even integer below.
floor_even(num) == (num \div 2) * 2

\* lines 19-20: math.ceil(num / 2.0) * 2
ceil_even(num) == ((num + 1) \div 2) * 2

\* int(x) of a float x given in units of 1/Second: truncation toward zero.
\* The product is exact here; binary floating point may be off by one unit
\* in the last place.
Truncate(x) == IF x >= 0 THEN x \div Second ELSE 0 - ((0 - x) \div Second)

\* str.lower() on the one letter of the model's size strings
Lower(c) == IF c = "X" THEN "x" ELSE c

\* lines 307-319
NewSizeParsed(a, info) ==
    LET new_size == IF Given(a.width) THEN a.width ELSE a.height
        dim == IF Given(a.width) THEN "width" ELSE "height"
        factor == Float(SubSeq(new_size, 1, Len(new_size) - 1))
    IN  IF dim \notin DOMAIN info THEN Raise("KeyError")
        ELSE IF Lower(new_size[Len(new_size)]) = "x"
        THEN IF factor.ok
             THEN Return(ceil_even(Truncate(info[dim] * factor.v)))
             ELSE Raise("ValueError")
        ELSE IF PyInt(new_size).ok
             THEN Return(ceil_even(PyInt(new_size).v))
             ELSE Raise("ValueError")

\* lines 306-331
Scale ==
    /\ pc = "scale"
    /\ IF Given(args.width) \/ Given(args.height)
       THEN LET r == NewSizeParsed(args, video_info)
            IN  IF r.exc # ""
                THEN Abort(r.exc) /\ UNCHANGED new_size_parsed
                ELSE /\ new_size_parsed' = r.v
                     /\ pc' = "filters"
                     /\ UNCHANGED <<raised, exit_status>>
       ELSE /\ pc' = "filters"
            /\ UNCHANGED <<new_size_parsed, raised, exit_status>>
    /\ UNCHANGED <<args, ffprobe_json, video_info, start_secs, duration_secs,
                   FAST_SEEK, fadein_start, fadeout_start, loop_amount,
                   filters, opt_vfilter, yt_index, opts_seek, opt_input,
                   supVars>>

\* A filter fragment is the list of the filters it names; None and "" are
\* both <<>>, which filter(None, ...) drops.
Only(cond, fragment) == IF cond THEN fragment ELSE <<>>

\* lines 339-340
VFadeIn(a) == Only(Given(a.fadein), <<"fade=t=in">>)
VFadeOut(a) == Only(Given(a.fadeout), <<"fade=t=out">>)

\* GPU fades that each get a transfer pair of their own, also when both
\* are requested.
NvidiaFadesEachWrapped(a) ==
    << Only(Given(a.fadein),
            <<"hwdownload", "format=nv12">> \o VFadeIn(a) \o <<"hwupload">>),
       Only(Given(a.fadeout),
            <<"hwdownload", "format=nv12">> \o VFadeOut(a) \o <<"hwupload">>) >>

\* lines 346-353: the fades of the GPU-assisted target, <<fade-in, fade-out>>
NvidiaFades(a) ==
    IF Given(a.fadein) /\ Given(a.fadeout)
    THEN << <<"hwdownload", "format=nv12">> \o VFadeIn(a),
            VFadeOut(a) \o <<"hwupload">> >>
    ELSE << Only(Given(a.fadein),
                 <<"hwdownload", "format=nv12">> \o VFadeIn(a)
                     \o <<"hwupload">>),
            Only(Given(a.fadeout),
                 <<"hwdownload", "format=nv12">> \o VFadeOut(a)
                     \o <<"hwupload">>) >>

\* ",".join(filter(None, fragments))
RECURSIVE Join(_)
Join(fragments) ==
    IF fragments = <<>> THEN <<>>
    ELSE Head(fragments) \o Join(Tail(fragments))

\* lines 326-383: the filter_* variables
Filters(a) ==
    LET fades == IF a.nvidia THEN NvidiaFades(a)
                 ELSE <<VFadeIn(a), VFadeOut(a)>>
    IN  [fps |-> Only(Given(a.framerate), <<"fps">>),
         fixrgb |-> Only(a.fixrgb = 2, <<"scale=in_range=tv:out_range=pc">>),
         crop |-> Only(Given(a.crop), <<"crop">>),
         scale |-> Only(Given(a.width) \/ Given(a.height),
                        IF a.nvidia THEN <<"scale_cuda">> ELSE <<"scale">>),
         minterpolate |-> Only(Given(a.slowmo_fps), <<"minterpolate">>),
         eq |-> <<"eq">>,
         sharpen |-> Only(a.sharpen, <<"unsharp">>),
         loop |-> <<"loop">>,
         vfadein |-> fades[1],
         vfadeout |-> fades[2],
         vfade |-> Join(fades),
         palettegen |-> Only(a.gif, <<"palettegen">>),
         paletteuse |-> <<"paletteuse">>]

\* line 401
FirstPassFilters(f) ==
    Join(<<f.fps, f.fixrgb, f.crop, f.scale, f.minterpolate, f.eq, f.sharpen,
           f.loop, f.vfade, f.palettegen>>)

\* line 477
SecondPassFilters(f) ==
    Join(<<f.fps, f.fixrgb, f.crop, f.scale, f.minterpolate, f.eq, f.sharpen,
           f.vfade, f.paletteuse>>)

\* A value that is None or a str: line 392 tells the two apart, where the
\* tests of truth do not.
None == [type |-> "NoneType", str |-> <<>>]
Str(tokens) == [type |-> "str", str |-> tokens]

\* The truth value of a value that is None or a str.
Truthy(x) == x.type = "str" /\ x.str # <<>>

\* lines 355-358, 384: the audio fragments requested, joined; str.join
\* returns a str, the empty one when no fragment is requested
filter_audio(a) ==
    Str(Join(<< Only(Given(a.volume), <<"volume">>),
                Only(a.normalize, <<"dynaudnorm">>),
                Only(Given(a.fadein), <<"afade=t=in">>),
                Only(Given(a.fadeout), <<"afade=t=out">>) >>))

\* line 392
convert_audio(a) == a.audio_force \/ (filter_audio(a) # None)

\* line 394
opt_acodec_bitrate(a) == IF a.garbage THEN "128k" ELSE "256k"

\* line 395
opt_acodec(a) ==
    IF convert_audio(a) THEN <<"-c:a", "aac", "-b:a", opt_acodec_bitrate(a)>>
    ELSE <<"-c:a", "copy">>

\* line 396
opt_audio(a) == IF a.mute \/ a.gif THEN <<"-an">> ELSE opt_acodec(a)

\* line 397
opt_afilter(a) ==
    IF Truthy(filter_audio(a)) /\ ~a.mute
    THEN <<"-af">> \o filter_audio(a).str
    ELSE <<>>

\* lines 334-402
BuildFilters ==
    /\ pc = "filters"
    /\ filters' = Filters(args)
    /\ opt_vfilter' = FirstPassFilters(Filters(args))
    /\ pc' = "youtube"
    /\ UNCHANGED <<args, exit_status, ffprobe_json, raised, video_info,
                   start_secs, duration_secs, FAST_SEEK, fadein_start,
                   fadeout_start, loop_amount, new_size_parsed, yt_index,
                   opts_seek, opt_input, supVars>>

\* lines 172-191, the bitrates in Mbit/s
YT_BITRATES ==
    (30 :> (2880 :> 64 @@ 2160 :> 45 @@ 1440 :> 16 @@ 1080 :> 8 @@ 720 :> 5
            @@ 480 :> 3 @@ 360 :> 1))
    @@
    (60 :> (2880 :> 80 @@ 2160 :> 64 @@ 1440 :> 24 @@ 1080 :> 12 @@ 720 :> 8
            @@ 480 :> 4 @@ 360 :> 2))

Min(S) == CHOOSE x \in S : \A y \in S : x <= y
Max(S) == CHOOSE x \in S : \A y \in S : x >= y

\* x >= num for an integer x and a quotient num = n/d
AtLeast(x, num) ==
    IF num.d > 0 THEN x * num.d >= num.n ELSE x * num.d <= num.n

\* A closest that falls back to the largest key when none is large enough.
closestOrLargest(num, arr) ==
    LET filtered == {x \in arr : AtLeast(x, num)}
    IN  IF filtered = {} THEN Return(Max(arr)) ELSE Return(Min(filtered))

\* lines 15-17: min() of an empty sequence raises ValueError
closest(num, arr) ==
    LET filtered == {x \in arr : AtLeast(x, num)}
    IN  IF filtered = {} THEN Raise("ValueError") ELSE Return(Min(filtered))

\* lines 405-407: <<yt_index1, yt_index2>>
YoutubeIndex(info) ==
    IF ~info["r_frame_rate"].converted THEN Raise("TypeError")
    ELSE LET yt_index1 == closest(info["r_frame_rate"], DOMAIN YT_BITRATES)
         IN  IF yt_index1.exc # "" THEN yt_index1
             ELSE IF "height" \notin DOMAIN info THEN Raise("KeyError")
             ELSE LET yt_index2 ==
                          closest([n |-> info["height"], d |-> 1],
                                  DOMAIN YT_BITRATES[yt_index1.v])
                  IN  IF yt_index2.exc # "" THEN yt_index2
                      ELSE Return(<<yt_index1.v, yt_index2.v>>)

\* lines 404-416
Youtube ==
    /\ pc = "youtube"
    /\ IF args.youtube
       THEN LET r == YoutubeIndex(video_info)
            IN  IF r.exc # ""
                THEN Abort(r.exc) /\ UNCHANGED yt_index
                ELSE /\ yt_index' = r.v
                     /\ pc' = "input"
                     /\ UNCHANGED <<raised, exit_status>>
       ELSE /\ pc' = "input"
            /\ UNCHANGED <<yt_index, raised, exit_status>>
    /\ UNCHANGED <<args, ffprobe_json, video_info, start_secs, duration_secs,
                   FAST_SEEK, fadein_start, fadeout_start, loop_amount,
                   new_size_parsed, filters, opt_vfilter, opts_seek,
                   opt_input, supVars>>

\* line 430: the value of -ss is str(round(start_secs, 4))
OptsSeek(a) == IF a.ss # <<"0">> THEN <<"-ss", "start_secs">> ELSE <<>>

\* line 399: the value of -t is duration_secs with four decimals
OptDuration(a) ==
    IF Given(a.t) \/ Given(a.to) THEN <<"-t", "duration_secs">> ELSE <<>>

\* lines 431-437
OptInput(fast, seek, a) ==
    (IF fast THEN seek \o <<"-i", "input">> ELSE <<"-i", "input">> \o seek)
        \o OptDuration(a)

\* lines 470-473
SecondPassInput(fast, seek, a) ==
    IF fast
    THEN seek \o <<"-i", "input", "-i", "palette_file">> \o OptDuration(a)
    ELSE <<"-i", "input", "-i", "palette_file">> \o seek \o OptDuration(a)

\* lines 430-438
InputOptions ==
    /\ pc = "input"
    /\ opts_seek' = OptsSeek(args)
    /\ opt_input' = OptInput(FAST_SEEK, OptsSeek(args), args)
    /\ pc' = "export"
    /\ UNCHANGED <<args, exit_status, ffprobe_json, raised, video_info,
                   start_secs, duration_secs, FAST_SEEK, fadein_start,
                   fadeout_start, loop_amount, new_size_parsed, filters,
                   opt_vfilter, yt_index, supVars>>

----------------------------------------------------------------------------
\* start_ffmpeg

\* line 145: the loop ends on an empty line once the process has ended
\* (poll() is not None)
LoopEnds(l, state) == l = <<>> /\ state = "exited"

\* A start_ffmpeg that reports every failure as code 1.
PassResultGeneric(code) == IF code = 0 THEN <<TRUE, 0>> ELSE <<FALSE, 1>>

\* lines 146-161: the result of start_ffmpeg for a process that has ended
PassResult(code) == IF code = 0 THEN <<TRUE, 0>> ELSE <<FALSE, code>>

\* line 156: a line is printed when it differs from the previous one
Printed(l, old) == l # old

\* A main that goes on after a failed pass.
GivesUpNever(ok) == FALSE

\* line 462, 488: main gives up after a failed pass
GivesUp(ok) == ~ok

\* lines 138-142: Popen and the start of the read loop, for pass n
Popen(n) ==
    /\ proc' = [proc EXCEPT ![n] = "running"]
    /\ cur' = n
    /\ oldline' = <<>>
    /\ line' = <<>>
    /\ readlog' = <<>>
    /\ emitted' = <<>>
    /\ unread' = 0
    /\ UNCHANGED <<rc, pipe, written>>

\* line 144: readline blocks while the pipe is empty and the writer lives;
\* at end of file it returns "".
Readline ==
    /\ pc = "readline"
    /\ \/ /\ pipe[cur] # <<>>
          /\ line' = Strip(Head(pipe[cur]))
          /\ readlog' = Append(readlog, Strip(Head(pipe[cur])))
          /\ pipe' = [pipe EXCEPT ![cur] = Tail(@)]
       \/ /\ pipe[cur] = <<>>
          /\ proc[cur] = "exited"
          /\ line' = <<>>
          /\ UNCHANGED <<readlog, pipe>>
    /\ pc' = "poll"
    /\ UNCHANGED <<args, exit_status, planVars, palette_exists, ffmpeg_args, proc,
                   rc, written, cur, oldline, emitted, unread, success,
                   returncode>>

\* lines 145-159: the rest of one iteration
Poll ==
    /\ pc = "poll"
    /\ IF LoopEnds(line, proc[cur])
       THEN /\ success' = PassResult(rc[cur])[1]
            /\ returncode' = PassResult(rc[cur])[2]
            /\ unread' = Len(pipe[cur])
            /\ pipe' = [pipe EXCEPT ![cur] = <<>>]
            /\ pc' = IF cur = 1 THEN "after_first" ELSE "after_second"
            /\ UNCHANGED <<emitted, oldline>>
       ELSE /\ emitted' = IF Printed(line, oldline)
                          THEN Append(emitted, line) ELSE emitted
            /\ oldline' = line
            /\ pc' = "readline"
            /\ UNCHANGED <<success, returncode, unread, pipe>>
    /\ UNCHANGED <<args, exit_status, planVars, palette_exists, ffmpeg_args, proc,
                   rc, written, cur, line, readlog>>

----------------------------------------------------------------------------
\* The encoder process of pass n

ProcWrite(n) ==
    /\ proc[n] = "running"
    /\ written[n] < MaxLines
    /\ \E l \in RawLines : pipe' = [pipe EXCEPT ![n] = Append(@, l)]
    /\ written' = [written EXCEPT ![n] = @ + 1]
    /\ UNCHANGED <<pc, args, exit_status, planVars, palette_exists, ffmpeg_args,
                   proc, rc, loopVars, success, returncode>>

ProcExit(n) ==
    /\ proc[n] = "running"
    /\ proc' = [proc EXCEPT ![n] = "exited"]
    /\ \E c \in ReturnCodes : rc' = [rc EXCEPT ![n] = c]
    /\ UNCHANGED <<pc, args, exit_status, planVars, palette_exists, ffmpeg_args,
                   pipe, written, loopVars, success, returncode>>

----------------------------------------------------------------------------
\* main, lines 440-506

\* lines 440-458: mkstemp creates the palette file of a GIF export
Export ==
    /\ pc = "export"
    /\ palette_exists' = (args.gif \/ palette_exists)
    /\ ffmpeg_args' = [input |-> opt_input, audio |-> opt_audio(args),
                       af |-> opt_afilter(args), vf |-> opt_vfilter,
                       out |-> IF args.gif THEN "palette_file" ELSE "out"]
    /\ pc' = "first_pass"
    /\ UNCHANGED <<args, exit_status, planVars, procVars, loopVars, success,
                   returncode>>

\* line 461
FirstPass ==
    /\ pc = "first_pass"
    /\ Popen(1)
    /\ pc' = "readline"
    /\ UNCHANGED <<args, exit_status, planVars, palette_exists, ffmpeg_args,
                   success, returncode>>

\* lines 462-467
AfterFirst ==
    /\ pc = "after_first"
    /\ IF GivesUp(success)
       THEN /\ exit_status' = SysExit(returncode)
            /\ pc' = "exited"
       ELSE /\ pc' = IF args.gif THEN "second_pass" ELSE "size"
            /\ UNCHANGED exit_status
    /\ UNCHANGED <<args, planVars, supVars>>

\* lines 468-487
SecondPass ==
    /\ pc = "second_pass"
    /\ ffmpeg_args' = [input |-> SecondPassInput(FAST_SEEK, opts_seek, args),
                       audio |-> opt_audio(args), af |-> opt_afilter(args),
                       vf |-> SecondPassFilters(filters), out |-> "out"]
    /\ Popen(2)
    /\ pc' = "readline"
    /\ UNCHANGED <<args, exit_status, planVars, palette_exists, success,
                   returncode>>

\* lines 488-493
AfterSecond ==
    /\ pc = "after_second"
    /\ IF GivesUp(success)
       THEN /\ exit_status' = SysExit(returncode)
            /\ pc' = "exited"
            /\ UNCHANGED palette_exists
       ELSE /\ palette_exists' = FALSE
            /\ pc' = "size"
            /\ UNCHANGED exit_status
    /\ UNCHANGED <<args, planVars, ffmpeg_args, procVars, loopVars, success,
                   returncode>>

\* lines 495-506: the size report never fails; main returns
Size ==
    /\ pc = "size"
    /\ pc' = "exited"
    /\ exit_status' = 0
    /\ UNCHANGED <<args, planVars, supVars>>

----------------------------------------------------------------------------

\* The command line without options: argparse's defaults (lines 193-249).
Defaults ==
    [ss |-> <<"0">>, t |-> <<>>, to |-> <<>>,
     fade |-> <<>>, fadein |-> <<>>, fadeout |-> <<>>, fast_seek |-> FALSE,
     youtube |-> FALSE, nvidia |-> FALSE, x264 |-> FALSE, x265 |-> FALSE,
     gif |-> FALSE, apng |-> FALSE, webp |-> FALSE,
     width |-> <<>>, height |-> <<>>, crop |-> <<>>, framerate |-> <<>>,
     loop |-> <<>>, slowmo_fps |-> <<>>, sharpen |-> FALSE, fixrgb |-> 0,
     mute |-> FALSE, audio_force |-> FALSE, volume |-> <<>>,
     normalize |-> FALSE, garbage |-> FALSE]

\* A video stream as ffprobe reports it.
VideoStream(w, h, rate, duration) ==
    [width |-> w, height |-> h, r_frame_rate |-> rate, duration |-> duration]

\* 1280x720 at 30 frames per second, 10 seconds long.
DefaultProbe ==
    [streams |-> << VideoStream(1280, 720, <<"3", "0", "/", "1">>,
                                <<"1", "0", ".", "0">>) >>]

\* The documents ffprobe prints in the model.
Probes ==
    { DefaultProbe,
      [streams |-> << VideoStream(1920, 1080,
                          <<"6", "0", "0", "0", "0", "/", "1", "0", "0", "1">>,
                          <<"1", "0", ".", "0">>) >>],
      [streams |-> << VideoStream(1920, 1080, <<"6", "0", "/", "1">>,
                                  <<"1", "0", ".", "0">>) >>],
      [streams |-> << VideoStream(1920, 1080, <<"1", "2", "0", "/", "1">>,
                                  <<"1", "0", ".", "0">>) >>],
      [streams |-> << VideoStream(5760, 3240, <<"3", "0", "/", "1">>,
                                  <<"1", "0", ".", "0">>) >>],
      [streams |-> << [r_frame_rate |-> <<"0", "/", "0">>,
                       duration |-> <<"9", ".", "5">>],
                      [width |-> 640, height |-> 360,
                       r_frame_rate |-> <<"2", "5", "/", "1">>] >>],
      [streams |-> << [width |-> 640, height |-> 360,
                       r_frame_rate |-> <<"2", "5", "/", "1">>] >>],
      [streams |-> << [width |-> 640, height |-> 360,
                       duration |-> <<"1", "0", ".", "0">>] >>],
      [streams |-> << [r_frame_rate |-> <<"0", "/", "0">>,
                       duration |-> <<"9", ".", "5">>] >>],
      [programs |-> <<>>] }

\* Time expressions given as -ss.
StartExprs ==
    { <<"0">>, <<"2">>, <<"1", ":", "3", "0">>, <<"1", ".", "2", "3", "4", "5", "6">>,
      <<"x">> }

\* <<-t, -to>>: at most one of the two is given.
EndExprs ==
    { << <<>>, <<>> >>,
      << <<"5">>, <<>> >>,
      << <<"0", ":", "0", "5", ".", "5">>, <<>> >>,
      << <<"x">>, <<>> >>,
      << <<>>, <<"7">> >>,
      << <<>>, <<"1", ":", "6", "0">> >> }

\* <<-f, -fi, -fo>>
FadeExprs ==
    { << <<>>, <<>>, <<>> >>,
      << <<"1">>, <<>>, <<>> >>,
      << <<>>, <<"1">>, <<>> >>,
      << <<>>, <<>>, <<"1">> >>,
      << <<>>, <<"1">>, <<".", "5">> >>,
      << <<>>, <<>>, <<"x">> >> }

\* The output targets of the mutually exclusive group (lines 237-245).
Targets == {"youtube", "nvidia", "x264", "x265", "gif", "apng", "webp"}
WithTarget(a, target) ==
    IF target = "none" THEN a ELSE [a EXCEPT ![target] = TRUE]

\* <<-vw, -vh>>: at most one of the two is given.
SizeExprs ==
    { << <<>>, <<>> >>,
      << <<>>, <<"4", "8", "1">> >>,
      << <<>>, <<"1", "0", "8", "0">> >>,
      << <<>>, <<"0", ".", "5", "x">> >>,
      << <<>>, <<"0", ".", "3", "3", "x">> >>,
      << <<"6", "4", "0">>, <<>> >>,
      << <<"1", ".", "5", "X">>, <<>> >>,
      << <<"w">>, <<>> >> }

\* Requests that vary the trim range, the fades and the seek placement.
TimingRequests ==
    { WithTarget([Defaults EXCEPT !.ss = ss, !.t = e[1], !.to = e[2],
                      !.fade = f[1], !.fadein = f[2], !.fadeout = f[3],
                      !.fast_seek = fs], target) :
        ss \in StartExprs, e \in EndExprs, f \in FadeExprs, fs \in BOOLEAN,
        target \in {"none", "gif", "nvidia", "youtube"} }

\* Requests that vary the output size and the filters.
SizeRequests ==
    { WithTarget([Defaults EXCEPT !.width = z[1], !.height = z[2],
                      !.crop = c, !.loop = l, !.sharpen = sh, !.fixrgb = fx,
                      !.framerate = fr, !.slowmo_fps = fr], target) :
        z \in SizeExprs,
        c \in { <<>>, <<"1", ":", "2", ":", "3", ":", "4">>, <<"1", ":", "2">> },
        l \in { <<>>, <<"-", "3">>, <<"x">> },
        sh \in BOOLEAN, fx \in {0, 2},
        fr \in { <<>>, <<"6", "0">> },
        target \in {"none", "youtube", "nvidia", "gif"} }

\* Requests that vary the output target against every probed source.
TargetRequests ==
    { WithTarget([Defaults EXCEPT !.height = h], target) :
        h \in { <<>>, <<"4", "8", "1">> }, target \in Targets \cup {"none"} }

\* <<-m, -af, -av, -n>>: at most one of the four is given (lines 201-205).
AudioExprs ==
    { <<FALSE, FALSE, <<>>, FALSE>>,
      <<TRUE, FALSE, <<>>, FALSE>>,
      <<FALSE, TRUE, <<>>, FALSE>>,
      <<FALSE, FALSE, <<"2">>, FALSE>>,
      <<FALSE, FALSE, <<>>, TRUE>> }

\* Requests that vary the audio options and the fades.
AudioRequests ==
    { WithTarget([Defaults EXCEPT !.mute = au[1], !.audio_force = au[2],
                      !.volume = au[3], !.normalize = au[4], !.garbage = g,
                      !.fadein = f[1], !.fadeout = f[2]], target) :
        au \in AudioExprs, g \in BOOLEAN,
        f \in { << <<>>, <<>> >>, << <<"1">>, <<>> >>, << <<>>, <<"1">> >> },
        target \in {"none", "gif", "x265"} }

\* The state before main's first statement, and before any pass.
Start(requests, probes) ==
    /\ pc = "probe"
    /\ args \in requests
    /\ ffprobe_json \in probes
    /\ raised = ""
    /\ exit_status = 0
    /\ video_info = <<>>
    /\ start_secs = 0
    /\ duration_secs = 0
    /\ FAST_SEEK = FALSE
    /\ fadein_start = 0
    /\ fadeout_start = 0
    /\ loop_amount = 0
    /\ new_size_parsed = 0
    /\ filters = <<>>
    /\ opt_vfilter = <<>>
    /\ yt_index = <<>>
    /\ opts_seek = <<>>
    /\ opt_input = <<>>
    /\ palette_exists = FALSE
    /\ ffmpeg_args = <<>>
    /\ proc = [n \in Passes |-> "not_started"]
    /\ rc = [n \in Passes |-> 0]
    /\ pipe = [n \in Passes |-> <<>>]
    /\ written = [n \in Passes |-> 0]
    /\ cur = 0
    /\ line = <<>>
    /\ oldline = <<>>
    /\ readlog = <<>>
    /\ emitted = <<>>
    /\ unread = 0
    /\ success = FALSE
    /\ returncode = 0

\* main up to the start of the first pass (lines 249-461)
Compile ==
    \/ GetVideoInfo
    \/ ParseTimes
    \/ SeekAndFades
    \/ CropAndLoop
    \/ Scale
    \/ BuildFilters
    \/ Youtube
    \/ InputOptions
    \/ Export
    \/ FirstPass

\* The supervision of the passes: a video export and a GIF export of the
\* default source, with every behaviour of the encoder processes.
Init == Start({Defaults, WithTarget(Defaults, "gif")}, {DefaultProbe})

Next ==
    \/ Compile
    \/ Readline
    \/ Poll
    \/ AfterFirst
    \/ SecondPass
    \/ AfterSecond
    \/ Size
    \/ \E n \in Passes : ProcWrite(n)
    \/ \E n \in Passes : ProcExit(n)

Spec == Init /\ [][Next]_vars

\* The compilation of the request: every request and probed source of the
\* model, up to the start of the first pass.
PlanInit ==
    \/ Start(TimingRequests, {DefaultProbe})
    \/ Start(SizeRequests, {DefaultProbe})
    \/ Start(TargetRequests, Probes)
    \/ Start(AudioRequests, {DefaultProbe})

PlanNext == Compile

PlanSpec == PlanInit /\ [][PlanNext]_vars

----------------------------------------------------------------------------
\* Claims about the supervision of the passes (specification Spec)

\* The passes of the export: a GIF export has two.
PlannedPasses == IF args.gif THEN {1, 2} ELSE {1}

\* Consecutive duplicates of s collapsed: one element per maximal run.
RECURSIVE Collapse(_)
Collapse(s) ==
    IF Len(s) <= 1 THEN s
    ELSE LET r == Collapse(SubSeq(s, 1, Len(s) - 1))
         IN  IF s[Len(s)] = s[Len(s) - 1] THEN r ELSE Append(r, s[Len(s)])

\* C1: the second pass is started only in a GIF export and only after the
\* first pass has ended with exit code 0; a first pass that ended with a
\* nonzero code is never followed by a second pass; and the two encoder
\* processes never run at the same time.
C1_SecondPassAfterFirstSucceeded ==
    /\ proc[2] # "not_started" =>
           args.gif /\ proc[1] = "exited" /\ rc[1] = 0
    /\ (proc[1] = "exited" /\ rc[1] # 0) => proc[2] = "not_started"
    /\ ~(proc[1] = "running" /\ proc[2] = "running")

\* The second pass of a GIF export is running, the first having succeeded.
C1_Witness == args.gif /\ proc[2] = "running" /\ proc[1] = "exited"

\* C2 (as claimed): when the invocation of a GIF export has ended and pass 1
\* succeeded, the palette file is gone, whether pass 2 succeeded or failed.
C2_PaletteRemovedAfterSecondPass ==
    (pc = "exited" /\ args.gif /\ proc[1] = "exited" /\ rc[1] = 0)
        => ~palette_exists

\* C3 (as claimed): when the invocation of a GIF export has ended and pass 1
\* failed with a nonzero exit code, no palette file is left on disk.
C3_NoPaletteLeftAfterFailedFirstPass ==
    (pc = "exited" /\ args.gif /\ proc[1] = "exited" /\ rc[1] # 0)
        => ~palette_exists

\* C4: a pass that ends with a nonzero code is never followed by another
\* pass; when the invocation has ended after a pass exited with a code
\* greater than 0 the pass is reported as failed and the invocation's exit
\* status is exactly that code; when every planned pass exited with 0 the
\* invocation's exit status is 0.
C4_ExitCodePropagates ==
    /\ \A n \in Passes :
           (proc[n] = "exited" /\ rc[n] # 0) =>
               \A m \in Passes : m > n => proc[m] = "not_started"
    /\ pc = "exited" =>
           /\ \A n \in Passes :
                  (proc[n] = "exited" /\ rc[n] > 0) =>
                      ~success /\ exit_status = rc[n]
           /\ (\A n \in PlannedPasses : proc[n] = "exited" /\ rc[n] = 0)
                  => success /\ exit_status = 0

\* The second pass of a GIF export exited with the largest code and the
\* invocation has ended.
C4_Witness ==
    pc = "exited" /\ proc[2] = "exited" /\ rc[2] = MaxExitCode

\* C5 (as claimed): between two reads, the lines printed are the lines read
\* so far with every maximal run of equal lines collapsed to one line.
C5_EmitsOneLinePerRun ==
    pc = "readline" => emitted = Collapse(readlog)

----------------------------------------------------------------------------
\* Claims about the compilation of the request (specification PlanSpec)

\* main has completed the named steps without raising.
Completed(steps) == raised = "" /\ pc \notin steps

ThroughSeek == {"probe", "times", "seek"}
ThroughYoutube ==
    ThroughSeek \cup {"crop", "scale", "filters", "youtube"}
ThroughInput == ThroughYoutube \cup {"input"}

\* No format of parse_ffmpeg_timestamp reads the expression.
Unparseable(expr) ==
    /\ ~Float(expr).ok
    /\ \A i \in 1..Len(timestamp_formats) :
           ~Strptime(expr, timestamp_formats[i],
                     [H |-> 0, M |-> 0, S |-> 0, f |-> 0]).ok

\* The time expressions main parses (lines 253-259).
ParsedExprs(a) ==
    {a.ss} \cup (IF Given(a.to) THEN {a.to}
                 ELSE IF Given(a.t) THEN {a.t} ELSE {})

\* C6 (as claimed): an expression that is neither a decimal number nor in
\* one of the four clock formats gives a value other than zero, and with
\* such a start time, duration or end position no encoder pass is started.
C6_ParseFailureAborts ==
    \A e \in ParsedExprs(args) :
        Unparseable(e) =>
            parse_ffmpeg_timestamp(e) # 0 /\ proc[1] = "not_started"

\* k is the smallest of the keys that is at least the quotient num.
IsCeiling(k, num, keys) ==
    /\ k \in keys
    /\ k * num.d >= num.n
    /\ \A j \in keys : j * num.d >= num.n => k <= j

\* The quotient num is above every key.
AboveAll(num, keys) == \A k \in keys : k * num.d < num.n

Whole(x) == [n |-> x, d |-> 1]

\* Frame rates in increasing order, for the monotonicity of the tier.
RateLadder ==
    << Whole(1), Whole(25), [n |-> 30000, d |-> 1001], Whole(30),
       [n |-> 60000, d |-> 1001], Whole(60) >>

\* C7: with -yt and a probed frame rate and height, the frame-rate tier is
\* the smallest key of the table at least the frame rate and the height
\* tier the smallest key of that row at least the height; when the frame
\* rate or the height is above every key, main never gets past the
\* selection and no pass is started; and a higher frame rate never selects
\* a lower frame-rate key.
C7_TierIsSmallestCeiling ==
    /\ (/\ args.youtube
        /\ "r_frame_rate" \in DOMAIN video_info
        /\ "height" \in DOMAIN video_info
        /\ video_info["r_frame_rate"].converted) =>
           LET rate == video_info["r_frame_rate"]
               height == Whole(video_info["height"])
           IN  /\ Completed(ThroughYoutube) =>
                      /\ IsCeiling(yt_index[1], rate, DOMAIN YT_BITRATES)
                      /\ IsCeiling(yt_index[2], height,
                                   DOMAIN YT_BITRATES[yt_index[1]])
               /\ (\/ AboveAll(rate, DOMAIN YT_BITRATES)
                   \/ \A r \in DOMAIN YT_BITRATES :
                          AboveAll(height, DOMAIN YT_BITRATES[r])) =>
                      /\ ~Completed(ThroughYoutube)
                      /\ yt_index = <<>>
                      /\ proc[1] = "not_started"
    /\ \A i, j \in 1..Len(RateLadder) :
           i <= j =>
               closest(RateLadder[i], DOMAIN YT_BITRATES).v
                   <= closest(RateLadder[j], DOMAIN YT_BITRATES).v

\* A 60000/1001 frames per second source of height 1080 got the tier of 60
\* frames per second and height 1080, and the first pass runs.
C7_Witness ==
    /\ args.youtube
    /\ proc[1] = "running"
    /\ video_info["r_frame_rate"].n = 60000
    /\ yt_index = <<60, 1080>>

\* C8 (as claimed): with -yt and a height target (-vh), the height tier is
\* the smallest key at least the target height written into the scale
\* filter.
C8_TierFromTargetHeight ==
    (args.youtube /\ Given(args.height) /\ Completed(ThroughYoutube)) =>
        IsCeiling(yt_index[2], Whole(new_size_parsed),
                  DOMAIN YT_BITRATES[yt_index[1]])

\* C9: with -nv and at least one fade, the video filters hold exactly one
\* hwdownload and exactly one hwupload; with both fades the download comes
\* before the fade-in and the upload after the fade-out, with one fade the
\* download comes before it and the upload after it.
C9_OneTransferPair ==
    (/\ args.nvidia
     /\ Completed(ThroughYoutube)
     /\ Given(args.fadein) \/ Given(args.fadeout)) =>
        LET down == IndexOf(opt_vfilter, "hwdownload")
            up == IndexOf(opt_vfilter, "hwupload")
            fadein == IndexOf(opt_vfilter, "fade=t=in")
            fadeout == IndexOf(opt_vfilter, "fade=t=out")
        IN  /\ Count(opt_vfilter, "hwdownload") = 1
            /\ Count(opt_vfilter, "hwupload") = 1
            /\ (fadein # 0) = Given(args.fadein)
            /\ (fadeout # 0) = Given(args.fadeout)
            /\ Given(args.fadein) => down < fadein /\ fadein < up
            /\ Given(args.fadeout) => down < fadeout /\ fadeout < up
            /\ (Given(args.fadein) /\ Given(args.fadeout)) => fadein < fadeout

\* A GPU-assisted export with both fades is running its pass.
C9_Witness ==
    /\ args.nvidia
    /\ proc[1] = "running"
    /\ Given(args.fadein)
    /\ Given(args.fadeout)
    /\ Count(ffmpeg_args.vf, "hwdownload") = 1

\* C10: fast seek is used exactly for a GIF export or with -fs.  Under fast
\* seek the fade-in starts at 0 and the fade-out at duration minus fade-out
\* length, and -ss (when given) comes before -i, also in the second pass of
\* a GIF export; otherwise the fade-in starts at the start offset and the
\* fade-out at start plus duration minus fade-out length, and -ss comes
\* after -i.  The starts are rounded to four decimals, as the code writes
\* them.  Start 2, duration 5 and fade 1 give a fade-out start of 6.
C10_SeekPlacement ==
    /\ Completed(ThroughSeek) =>
           LET fadeout == IF Given(args.fadeout)
                          THEN Float(args.fadeout).v ELSE 0
           IN  /\ FAST_SEEK = (args.gif \/ args.fast_seek)
               /\ FAST_SEEK =>
                      /\ fadein_start = 0
                      /\ fadeout_start = Round4(duration_secs - fadeout)
               /\ ~FAST_SEEK =>
                      /\ fadein_start = Round4(start_secs)
                      /\ fadeout_start =
                             Round4(start_secs + duration_secs - fadeout)
               /\ (/\ ~FAST_SEEK
                   /\ start_secs = 2 * Second
                   /\ duration_secs = 5 * Second
                   /\ fadeout = Second) => fadeout_start = 6 * Second
    /\ (Completed(ThroughInput) /\ args.ss # <<"0">>) =>
           LET second == SecondPassInput(FAST_SEEK, opts_seek, args)
           IN  /\ Count(opt_input, "-ss") = 1
               /\ FAST_SEEK = (IndexOf(opt_input, "-ss")
                                   < IndexOf(opt_input, "-i"))
               /\ args.gif =>
                      /\ Count(second, "-ss") = 1
                      /\ IndexOf(second, "-ss") < IndexOf(second, "-i")

\* The scenario of the design: start 2, duration 5, fade 1 under accurate
\* seek, with the 30/720 bitrate tier; the fade-out starts at 6.
C10_Witness ==
    /\ proc[1] = "running"
    /\ ~FAST_SEEK
    /\ args.youtube
    /\ start_secs = 2 * Second
    /\ duration_secs = 5 * Second
    /\ args.fade = <<"1">>
    /\ fadein_start = 2 * Second
    /\ fadeout_start = 6 * Second
    /\ yt_index = <<30, 720>>
    /\ ffmpeg_args.input = <<"-i", "input", "-ss", "start_secs", "-t",
                             "duration_secs">>

----------------------------------------------------------------------------
\* Claims about the output size, the filters of the passes and the probe
\* (specification PlanSpec)

ThroughScale == ThroughSeek \cup {"crop", "scale"}

\* The integer the size option asks for: the number given, or the probed
\* dimension times the multiplier, cut to an integer (lines 314-317).
RequestedSize(a, info) ==
    LET new_size == IF Given(a.width) THEN a.width ELSE a.height
        dim == IF Given(a.width) THEN "width" ELSE "height"
    IN  IF Lower(new_size[Len(new_size)]) = "x"
        THEN Truncate(info[dim]
                      * Float(SubSeq(new_size, 1, Len(new_size) - 1)).v)
        ELSE PyInt(new_size).v

\* C11: with -vw or -vh, absolute or as a multiplier, the target size is
\* even, at least the requested integer and less than two above it, and
\* the scale fragment is part of the video filters; 481 gives 482.
C11_TargetSizeIsEvenCeiling ==
    ((Given(args.width) \/ Given(args.height)) /\ Completed(ThroughScale)) =>
        LET requested == RequestedSize(args, video_info)
        IN  /\ new_size_parsed % 2 = 0
            /\ new_size_parsed >= requested
            /\ new_size_parsed < requested + 2
            /\ requested = 481 => new_size_parsed = 482
            /\ Completed(ThroughYoutube) =>
                   Count(opt_vfilter, "scale")
                       + Count(opt_vfilter, "scale_cuda") = 1

\* A height of 0.33 times 720, 237, became 238 and the pass runs.
C11_Witness ==
    /\ proc[1] = "running"
    /\ args.height = <<"0", ".", "3", "3", "x">>
    /\ video_info["height"] = 720
    /\ new_size_parsed = 238

\* The filters of pass 1 with the palette generator replaced by the palette
\* user.
WithPaletteUse(first) == SubSeq(first, 1, Len(first) - 1) \o <<"paletteuse">>

\* C12: for a GIF export the video filters of pass 2 are those of pass 1, in
\* the same order, with the final palettegen replaced by paletteuse; every
\* other fragment of pass 1, the frame loop included, is in pass 2.
C12_SecondPassFiltersMatchFirst ==
    (args.gif /\ Completed(ThroughYoutube)) =>
        LET first == FirstPassFilters(filters)
        IN  /\ first[Len(first)] = "palettegen"
            /\ SecondPassFilters(filters) = WithPaletteUse(first)

\* get_video_info has returned or raised.
Probed == pc # "probe"

\* get_video_info raised: main stopped without a record of the source.
ProbeFailed == Probed /\ DOMAIN video_info = {}

\* The streams of the list that carry a duration.
Carriers(streams) ==
    {i \in 1..Len(streams) : "duration" \in DOMAIN streams[i]}

\* C13: get_video_info fails only when the output of the prober has no
\* stream list; with a list of at least one stream, a stream without a frame
\* rate or a duration does not make it fail, and the record it returns has
\* the duration of the first stream that carries one, or 1000.0 when no
\* stream does.
C13_ProbeFailsOnlyWithoutStreamList ==
    (Probed /\ "streams" \in DOMAIN ffprobe_json) =>
        LET streams == ffprobe_json.streams
        IN  Len(streams) >= 1 =>
                /\ ~ProbeFailed
                /\ video_info["duration"] =
                       IF Carriers(streams) = {} THEN FallbackDuration
                       ELSE Float(streams[Min(Carriers(streams))]["duration"]).v

----------------------------------------------------------------------------
\* Claim about the read loop of a pass (specification Spec)

\* start_ffmpeg has returned its result for the pass.
Returned == pc \in {"after_first", "after_second"}

\* C14: start_ffmpeg returns only after every line the encoder process
\* wrote has been read: in every interleaving of the process writing and
\* exiting with the read loop, no line is left in the pipe when the loop
\* ends, an empty line in the unread output included.
C14_EveryLineReadBeforeResult ==
    Returned => /\ unread = 0
                /\ Len(readlog) = written[cur]

----------------------------------------------------------------------------
\* Claim about the audio options (specification PlanSpec)

\* The argument vector of pass 1 is assembled.
Assembled == DOMAIN ffmpeg_args # {}

\* A volume, normalization or fade filter is requested.
AudioFilterRequested(a) ==
    Given(a.volume) \/ a.normalize \/ Given(a.fadein) \/ Given(a.fadeout)

\* C15: when audio is not muted, the export is not a GIF, no re-encode is
\* forced and no volume, normalization or fade filter is requested, the
\* audio options of the argument vector are -c:a copy; audio is re-encoded
\* only when forced or when the audio filter chain is not empty.
C15_AudioCopiedUnlessForcedOrFiltered ==
    Assembled =>
        /\ (~args.mute /\ ~args.gif /\ ~args.audio_force
                /\ ~AudioFilterRequested(args)) =>
               ffmpeg_args.audio = <<"-c:a", "copy">>
        /\ Contains(ffmpeg_args.audio, "aac") =>
               args.audio_force \/ filter_audio(args).str # <<>>

====
